---- MODULE Spec2Model ----
(***************************************************************************)
(* Model of the scoring engine of gtp.py: GitHubAPI (the three fetches),   *)
(* GitHubProfileAnalyzer (analyze_profile, the five metric functions, the  *)
(* score composer and the feedback generator).                             *)
(*                                                                         *)
(* Numbers.  A Python float is modelled as the IEEE-754 binary64 number it  *)
(* is: its value is kept exactly, and every +, * and / rounds its exact    *)
(* result to the nearest float as the processor does, in the order in      *)
(* which the code evaluates them.  So 0.7 * (1/5) is 0.13999999999999999,  *)
(* the float below 0.14.  round(x, 2) and the format ".0f" round the exact *)
(* value of the float they are given.                                      *)
(*                                                                         *)
(* Time.  A timestamp is a whole number of days; datetime.now() reads the  *)
(* variable clock, which may advance between any two steps of a run.       *)
(*                                                                         *)
(* Strings.  A message is a sequence of text pieces, an f-string is the    *)
(* concatenation of its pieces.  A character outside ASCII is given by its *)
(* code point.  A description is modelled by whether it is null and by its *)
(* length.  The text of the line edit is the sequence of the code points   *)
(* of its characters.                                                      *)
(***************************************************************************)
EXTENDS Integers, Sequences, FiniteSets, TLC

VARIABLES
    pc,             \* position of AnalyzerThread.run and of analyze_profile in it
    clock,          \* the value datetime.now() returns, in days
    now0,           \* history: the clock when analyze_profile was entered
    remote,         \* what the platform holds: [profile, repos, events]
    profile,        \* local of analyze_profile
    repos,          \* local of analyze_profile
    contributions,  \* local of analyze_profile
    fetchLog,       \* history: the fetches issued, in order, and how each ended
    called,         \* history: the metric functions invoked, in order
    idx,            \* position of the list comprehension being evaluated
    event_count,    \* len(recent_events) so far
    repo_count,     \* len(recent_repos) so far
    metrics,        \* the metric set being built / built
    score,          \* local of analyze_profile: the unrounded composite
    result,         \* what analyze_profile returned or raised
    loop_i,         \* AnalyzerThread.run: the `i` of the progress loop
    signals,        \* the signals self.analyzer_thread has emitted, in order
    handled,        \* how many of them the main thread has run the slot of
    orphans,        \* threads replaced as self.analyzer_thread before the slot of their final signal ran
    username_input, \* MainWindow: the text of the line edit, a sequence of code points
    analyze_button, \* MainWindow: whether the button is enabled
    progress_bar,   \* MainWindow: [visible] of the progress bar
    progress_animation, \* MainWindow: [state, end] of the animation of the bar's value
    page,           \* MainWindow: the index shown by the stacked layout
    dialog          \* the modal message box that is open, if any

\* the variables of the worker thread and of the window
thread == <<loop_i, signals, handled, orphans>>
window == <<username_input, analyze_button, progress_bar, progress_animation, page, dialog>>

vars == <<pc, clock, now0, remote, profile, repos, contributions, fetchLog,
          called, idx, event_count, repo_count, metrics, score, result,
          thread, window>>

(***************************************************************************)
(* Bounds of the model.                                                    *)
(***************************************************************************)
MaxRepos == 2
MaxTicks == 2

(***************************************************************************)
(* Natural numbers of any size, for the significands of the floats: the     *)
(* sequence <<l1, ..., lk>> of limbs below Base, lk # 0, stands for         *)
(* l1 + l2 * Base + ... + lk * Base^(k-1), and <<>> for 0.  An operator     *)
(* that uses an operand more than once binds it first (CHOOSE over a set of *)
(* one element), so that an operand given as an expression is evaluated a   *)
(* single time.                                                             *)
(***************************************************************************)
LimbBits == 15
Base == 2^LimbBits

Limb(a, i) == IF i >= 1 /\ i <= Len(a) THEN a[i] ELSE 0

RECURSIVE TopLimb(_, _)
TopLimb(a, i) == IF i = 0 THEN 0 ELSE IF a[i] # 0 THEN i ELSE TopLimb(a, i - 1)

\* a without its zero limbs at the top
Trim(a) == CHOOSE t \in {SubSeq(v, 1, TopLimb(v, Len(v))) : v \in {a}} : TRUE

\* the limbs of the integer n >= 0
RECURSIVE Big(_)
Big(n) == IF n = 0 THEN <<>> ELSE <<n % Base>> \o Big(n \div Base)

RECURSIVE IntFrom(_, _)
IntFrom(a, i) == IF i > Len(a) THEN 0 ELSE a[i] + Base * IntFrom(a, i + 1)

\* the integer of limbs a, for a below 2^31
ToInt(a) == CHOOSE n \in {IntFrom(v, 1) : v \in {a}} : TRUE

RECURSIVE AddFrom(_, _, _, _)
AddFrom(a, b, i, carry) ==
    IF i > Len(a) /\ i > Len(b)
    THEN IF carry = 0 THEN <<>> ELSE <<carry>>
    ELSE <<(Limb(a, i) + Limb(b, i) + carry) % Base>>
            \o AddFrom(a, b, i + 1, (Limb(a, i) + Limb(b, i) + carry) \div Base)

BigAdd(a, b) == CHOOSE s \in {AddFrom(v, w, 1, 0) : v \in {a}, w \in {b}} : TRUE

RECURSIVE MulFrom(_, _, _, _)
MulFrom(a, k, i, carry) ==
    IF i > Len(a)
    THEN IF carry = 0 THEN <<>> ELSE <<carry>>
    ELSE <<(a[i] * k + carry) % Base>> \o MulFrom(a, k, i + 1, (a[i] * k + carry) \div Base)

\* a * k for an integer 0 <= k < Base
MulSmall(a, k) ==
    CHOOSE p \in {IF n = 0 THEN <<>> ELSE MulFrom(v, n, 1, 0) : v \in {a}, n \in {k}} : TRUE

TimesBase(a) == CHOOSE p \in {IF v = <<>> THEN v ELSE <<0>> \o v : v \in {a}} : TRUE

RECURSIVE MulAcc(_, _, _)
MulAcc(a, b, j) ==
    IF j > Len(b) THEN <<>> ELSE BigAdd(MulSmall(a, b[j]), TimesBase(MulAcc(a, b, j + 1)))

BigMul(a, b) == CHOOSE p \in {MulAcc(v, w, 1) : v \in {a}, w \in {b}} : TRUE

\* -1, 0 or 1 as a is below, equal to or above b
BigCmp(a, b) ==
    CHOOSE c \in {IF Len(v) # Len(w)
                  THEN IF Len(v) < Len(w) THEN -1 ELSE 1
                  ELSE LET D == {i \in 1..Len(v) : v[i] # w[i]}
                       IN  IF D = {}
                           THEN 0
                           ELSE LET k == CHOOSE i \in D : \A j \in D : j <= i
                                IN  IF v[k] < w[k] THEN -1 ELSE 1 :
                      v \in {a}, w \in {b}} : TRUE

BitsOf(k) == CHOOSE n \in 1..LimbBits : 2^(n - 1) <= k /\ k < 2^n

\* the number of bits of a
BitLen(a) ==
    CHOOSE n \in {IF v = <<>> THEN 0 ELSE (Len(v) - 1) * LimbBits + BitsOf(v[Len(v)]) :
                      v \in {a}} : TRUE

\* a * 2^n
ShiftLeft(a, n) ==
    CHOOSE s \in {Trim([i \in 1..(Len(v) + (k \div LimbBits) + 1) |->
                        LET j == i - (k \div LimbBits)
                            b == k % LimbBits
                        IN  ((Limb(v, j) * 2^b) % Base) + (Limb(v, j - 1) \div 2^(LimbBits - b))]) :
                      v \in {a}, k \in {n}} : TRUE

\* a \div 2^n
ShiftRight(a, n) ==
    CHOOSE s \in {IF Len(v) <= k \div LimbBits
                  THEN <<>>
                  ELSE Trim([i \in 1..(Len(v) - (k \div LimbBits)) |->
                             LET j == i + (k \div LimbBits)
                                 b == k % LimbBits
                             IN  (v[j] \div 2^b) + ((Limb(v, j + 1) % 2^b) * 2^(LimbBits - b))]) :
                      v \in {a}, k \in {n}} : TRUE

\* bit k of a, bit 0 the lowest
Bit(a, k) == (Limb(a, (k \div LimbBits) + 1) \div 2^(k % LimbBits)) % 2

\* some bit of a below bit k is set
AnyBelow(a, k) ==
    \/ \E i \in 1..(k \div LimbBits) : Limb(a, i) # 0
    \/ Limb(a, (k \div LimbBits) + 1) % 2^(k % LimbBits) # 0

RECURSIVE DivFrom(_, _, _, _)
DivFrom(a, d, i, rem) ==
    IF i = 0
    THEN <<<<>>, rem>>
    ELSE CHOOSE qr \in {<<Append(rest[1], (rem * Base + a[i]) \div d), rest[2]>> :
                            rest \in {DivFrom(a, d, i - 1, (rem * Base + a[i]) % d)}} : TRUE

\* <<a \div d, a % d>> for an integer 0 < d <= Base
DivSmall(a, d) ==
    CHOOSE qr \in {<<Trim(r[1]), r[2]>> :
                       r \in {DivFrom(v, k, Len(v), 0) : v \in {a}, k \in {d}}} : TRUE

\* the number of zero bits at the bottom of a # <<>>
TrailingZeros(a) ==
    LET i == CHOOSE k \in 1..Len(a) : a[k] # 0 /\ \A j \in 1..(k - 1) : a[j] = 0
        n == CHOOSE k \in 0..(LimbBits - 1) : a[i] % 2^(k + 1) # 0 /\ a[i] % 2^k = 0
    IN  (i - 1) * LimbBits + n

(***************************************************************************)
(* Python's float: an IEEE-754 binary64 number.  The float of value         *)
(* m * 2^e is the pair <<m, e>> with m an odd natural number of at most     *)
(* Precision bits, and 0.0 is <<0, 0>>, so that equal floats are equal      *)
(* pairs.  The engine computes neither negative numbers, infinities, NaN    *)
(* nor numbers outside the normal range (its values lie between 10^-7 and   *)
(* 10^3), so the pair carries no sign and the exponent is not limited.      *)
(* +, * and / round the exact result to the nearest float, a tie to the one *)
(* with the even significand.                                               *)
(***************************************************************************)
Precision == 53

Zero == <<<<>>, 0>>

\* the pair of the value m * 2^e
Canon(m, e) ==
    CHOOSE x \in {IF v = <<>>
                  THEN Zero
                  ELSE CHOOSE y \in {<<ShiftRight(v, z), k + z>> : z \in {TrailingZeros(v)}} : TRUE :
                      v \in {m}, k \in {e}} : TRUE

\* the float nearest to (m + f) * 2^e, where 0 <= f < 1 and f # 0 iff sticky
\* (sticky only with m of more than Precision bits)
Round53(m, e, sticky) ==
    CHOOSE x \in {IF BitLen(v) <= Precision
                  THEN Canon(v, k)
                  ELSE CHOOSE y \in {LET up == /\ Bit(v, s - 1) = 1
                                               /\ \/ st
                                                  \/ AnyBelow(v, s - 1)
                                                  \/ Bit(v, s) = 1
                                     IN  Canon(IF up
                                               THEN BigAdd(ShiftRight(v, s), <<1>>)
                                               ELSE ShiftRight(v, s), k + s) :
                                         s \in {BitLen(v) - Precision}} : TRUE :
                      v \in {m}, k \in {e}, st \in {sticky}} : TRUE

Min(i, j) == IF i <= j THEN i ELSE j

\* the exact sum of two floats, as a value m * 2^e with m of any size
ExactSum(x, y) ==
    CHOOSE s \in {<<BigAdd(ShiftLeft(p[1], p[2] - Min(p[2], q[2])),
                           ShiftLeft(q[1], q[2] - Min(p[2], q[2]))),
                    Min(p[2], q[2])>> : p \in {x}, q \in {y}} : TRUE

\* float + float; a sum with 0.0 is the other operand
FAdd(x, y) ==
    CHOOSE s \in {IF p = Zero THEN q
                  ELSE IF q = Zero THEN p
                  ELSE CHOOSE r \in {Round53(d[1], d[2], FALSE) : d \in {ExactSum(p, q)}} : TRUE :
                      p \in {x}, q \in {y}} : TRUE

\* float * float; a product with 0.0 is 0.0, and a product with a power of
\* two only moves the exponent
FMul(x, y) ==
    CHOOSE s \in {IF p = Zero \/ q = Zero THEN Zero
                  ELSE IF p[1] = <<1>> THEN <<q[1], p[2] + q[2]>>
                  ELSE IF q[1] = <<1>> THEN <<p[1], p[2] + q[2]>>
                  ELSE Round53(BigMul(p[1], q[1]), p[2] + q[2], FALSE) :
                      p \in {x}, q \in {y}} : TRUE

\* the position above the highest bit of a float that is not 0.0
Top(x) == BitLen(x[1]) + x[2]

\* -1, 0 or 1 as x < y, x == y or x > y; also for values m * 2^e with m even
FCmp(x, y) ==
    CHOOSE c \in {IF p = q \/ (p[1] = <<>> /\ q[1] = <<>>) THEN 0
                  ELSE IF p[1] = <<>> THEN -1
                  ELSE IF q[1] = <<>> THEN 1
                  ELSE CHOOSE d \in {IF tp < tq THEN -1
                                     ELSE IF tp > tq THEN 1
                                     ELSE BigCmp(ShiftLeft(p[1], p[2] - Min(p[2], q[2])),
                                                 ShiftLeft(q[1], q[2] - Min(p[2], q[2]))) :
                                         tp \in {Top(p)}, tq \in {Top(q)}} : TRUE :
                      p \in {x}, q \in {y}} : TRUE

FLe(x, y) == FCmp(x, y) <= 0
FLt(x, y) == FCmp(x, y) < 0
FGe(x, y) == FCmp(x, y) >= 0

\* x / y for a divisor y > 0 whose significand is below Base (the divisors of
\* the engine are the numbers 5, 10, 30, 50, 100 and counts of repositories);
\* a quotient by a power of two only moves the exponent
FDiv(x, y) ==
    CHOOSE r \in {IF p[1] = <<>>
                  THEN Zero
                  ELSE IF q[1] = <<1>>
                  THEN <<p[1], p[2] - q[2]>>
                  ELSE CHOOSE z \in {Round53(qr[1], p[2] - q[2] - k, qr[2] # 0) :
                                        k \in {Precision + 2 + LimbBits},
                                        qr \in {DivSmall(ShiftLeft(p[1], Precision + 2 + LimbBits),
                                                         ToInt(q[1]))}} : TRUE :
                      p \in {x}, q \in {y}} : TRUE

\* float(n) for an integer 0 <= n < 2^31
FromInt(n) == Canon(Big(n), 0)

\* n / d of two integers, which Python rounds correctly; also the float
\* literal that is written as the decimal fraction n / d
Float(n, d) == FDiv(FromInt(n), FromInt(d))

One == FromInt(1)

\* min(x, 1.0)
Min1(x) == CHOOSE m \in {IF FLe(v, One) THEN v ELSE One : v \in {x}} : TRUE

\* the integer nearest to the value x, a tie to the even one
RoundHalfEven(x) ==
    CHOOSE n \in {IF p[2] >= 0
                  THEN ToInt(ShiftLeft(p[1], p[2]))
                  ELSE LET s == 0 - p[2]
                           up == /\ Bit(p[1], s - 1) = 1
                                 /\ \/ AnyBelow(p[1], s - 1)
                                    \/ Bit(p[1], s) = 1
                       IN  ToInt(ShiftRight(p[1], s)) + (IF up THEN 1 ELSE 0) :
                      p \in {x}} : TRUE

\* the exact product of the float x and the integer 0 <= n < Base
TimesInt(x, n) == CHOOSE p \in {Canon(MulSmall(v[1], k), v[2]) : v \in {x}, k \in {n}} : TRUE

\* round(x, 2): the exact value of x is rounded to a whole number of
\* hundredths, a tie to the even one, and the float nearest to it is returned
Round2(x) == Float(RoundHalfEven(TimesInt(x, 100)), 100)

(***************************************************************************)
(* Records of the platform.                                                *)
(***************************************************************************)
\* Python's None
None == "<null>"

\* a local of analyze_profile before its assignment
Unassigned == <<>>

\* A timestamp string of the platform: a day with the UTC marker 'Z'
Stamp(day) == [day |-> day, z |-> TRUE]

\* s.replace('Z', '')
StripZ(s) == [s EXCEPT !.z = FALSE]

\* datetime.fromisoformat(s) of a string without the marker
FromIsoFormat(s) == s.day

\* datetime.fromisoformat(x.replace('Z', '')) > now - timedelta(days = days)
IsRecent(stamp, now, days) == FromIsoFormat(StripZ(stamp)) > now - days

\* A description: a string of the given length
Text(len) == [null |-> FALSE, len |-> len]
NoText == [null |-> TRUE, len |-> 0]

\* a test for None alone: '' passes
TruthyNotNone(d) == ~d.null

\* Python truthiness of a description (None and '' are false)
Truthy(d) == ~d.null /\ d.len > 0

\* mapping.get(key, default)
Get(m, key, default) == IF key \in DOMAIN m THEN m[key] ELSE default

\* the repository of the worked example: Go, nothing else, updated 200 days ago
RepoGo ==
    [language |-> "Go", topics |-> <<>>, forks_count |-> 0, fork |-> FALSE,
     has_wiki |-> FALSE, description |-> NoText, has_issues |-> FALSE,
     stargazers_count |-> 0, size |-> 500, updated_at |-> Stamp(-200)]

\* a popular, documented fork with eleven topics, updated recently
RepoPopular ==
    [language |-> "Python",
     topics |-> <<"t1", "t2", "t3", "t4", "t5", "t6", "t7", "t8", "t9", "t10", "t11">>,
     forks_count |-> 12, fork |-> TRUE, has_wiki |-> TRUE,
     description |-> Text(21), has_issues |-> TRUE, stargazers_count |-> 25,
     size |-> 5000, updated_at |-> Stamp(-10)]

\* no language, no topics field, empty description, on the 90-day boundary
RepoBare ==
    [language |-> None, forks_count |-> 3, fork |-> FALSE, has_wiki |-> TRUE,
     description |-> Text(0), has_issues |-> TRUE, stargazers_count |-> 5,
     size |-> 1000, updated_at |-> Stamp(-89)]

\* a second Go repository sharing topics, description of exactly 20 characters
RepoSmall ==
    [language |-> "Go", topics |-> <<"t1", "t2">>, forks_count |-> 1,
     fork |-> TRUE, has_wiki |-> FALSE, description |-> Text(20),
     has_issues |-> FALSE, stargazers_count |-> 15, size |-> 4999,
     updated_at |-> Stamp(-10)]

RepoRecords == {RepoGo, RepoPopular, RepoBare, RepoSmall}

RepoLists == UNION {[1..n -> RepoRecords] : n \in 0..MaxRepos}

ProfileRecords ==
    {[followers |-> 0, following |-> 0, avatar_url |-> "avatar"],
     [followers |-> 250, following |-> 80, avatar_url |-> ""],
     [followers |-> 0, following |-> 10],
     [followers |-> 28, following |-> 50],
     [login |-> "user"]}

Event(day) == [created_at |-> Stamp(day)]

Repeat(n, x) == [i \in 1..n |-> x]

\* none; on the 30-day boundary; twenty recent; old and recent; thirty and
\* more recent events
EventLists ==
    {<<>>,
     <<Event(-29)>>,
     Repeat(20, Event(-1)),
     <<Event(-100), Event(-1)>>,
     Repeat(30, Event(-1)),
     Repeat(31, Event(-1)) \o <<Event(-100)>>}

\* the messages a failing request may carry
UpstreamMessages == {"timeout", "404 Client Error"}

(***************************************************************************)
(* The metric engine.                                                      *)
(***************************************************************************)
MetricOrder == <<"activity", "diversity", "community", "documentation", "code_quality">>

MetricNames == {MetricOrder[i] : i \in DOMAIN MetricOrder}

RECURSIVE SumTo(_, _)
\* sum(f[1..n])
SumTo(f, n) == IF n = 0 THEN 0 ELSE f[n] + SumTo(f, n - 1)

\* sum(1 for x in ... if cond), cond given as a sequence of booleans
CountTrue(b) == Cardinality({i \in DOMAIN b : b[i]})

\* the float literals 0.1, 0.2, ..., 0.9: Tenths[k] is the float nearest to k / 10
Tenths ==
    <<Float(1, 10), Float(2, 10), Float(3, 10), Float(4, 10), Float(5, 10),
      Float(6, 10), Float(7, 10), Float(8, 10), Float(9, 10)>>

\* the blend with the event score left unclamped: events / 30
ActivityValueUnclamped(events, recent, rs) ==
    LET event_score == Float(events, 30)
        repo_score == IF Len(rs) > 0 THEN Min1(Float(recent, Len(rs))) ELSE Zero
    IN  FAdd(FMul(event_score, Tenths[6]), FMul(repo_score, Tenths[4]))

\* the normalisation and blend of _calculate_activity_metric
ActivityValue(events, recent, rs) ==
    LET event_score == Min1(Float(events, 30))
        repo_score == IF Len(rs) > 0 THEN Min1(Float(recent, Len(rs))) ELSE Zero
    IN  FAdd(FMul(event_score, Tenths[6]), FMul(repo_score, Tenths[4]))

\* the languages and topics kept in lists instead of sets: repeats are counted
calculate_diversity_metric_lists(rs) ==
    IF Len(rs) = 0 THEN Zero
    ELSE
    LET languages == {j \in DOMAIN rs : rs[j].language # None /\ rs[j].language # ""}
        topics == SumTo([i \in DOMAIN rs |-> Len(Get(rs[i], "topics", <<>>))], Len(rs))
        language_score == Min1(Float(Cardinality(languages), 5))
        topic_score == Min1(Float(topics, 10))
    IN  FAdd(FMul(language_score, Tenths[7]), FMul(topic_score, Tenths[3]))

calculate_diversity_metric(rs) ==
    IF Len(rs) = 0 THEN Zero
    ELSE
    LET languages == {rs[i].language : i \in {j \in DOMAIN rs :
                            rs[j].language # None /\ rs[j].language # ""}}
        topics == UNION {{rs[i].topics[k] : k \in DOMAIN rs[i].topics} :
                            i \in {j \in DOMAIN rs : Len(Get(rs[j], "topics", <<>>)) > 0}}
        language_score == Min1(Float(Cardinality(languages), 5))
        topic_score == Min1(Float(Cardinality(topics), 10))
    IN  FAdd(FMul(language_score, Tenths[7]), FMul(topic_score, Tenths[3]))

\* followers / 100 without the clamp
FollowerScoreUnclamped(followers) == Float(followers, 100)

\* min(followers / 100, 1.0)
FollowerScore(followers) == Min1(Float(followers, 100))

calculate_community_metric(p, rs) ==
    LET followers == Get(p, "followers", 0)
        following == Get(p, "following", 0)
        forks == SumTo([i \in DOMAIN rs |-> rs[i].forks_count], Len(rs))
        collaborations == CountTrue([i \in DOMAIN rs |-> rs[i].fork])
        follower_score == FollowerScore(followers)
        following_score == Min1(Float(following, 50))
        fork_score == IF Len(rs) > 0 THEN Min1(Float(forks, Len(rs) * 5)) ELSE Zero
        collab_score == IF Len(rs) > 0 THEN Min1(Float(collaborations, Len(rs))) ELSE Zero
    IN  FAdd(FAdd(FAdd(FMul(follower_score, Tenths[3]),
                       FMul(following_score, Tenths[2])),
                  FMul(fork_score, Tenths[3])),
             FMul(collab_score, Tenths[2]))

calculate_documentation_metric(rs) ==
    IF Len(rs) = 0 THEN Zero
    ELSE
    LET wiki_count == CountTrue([i \in DOMAIN rs |-> rs[i].has_wiki])
        description_count == CountTrue([i \in DOMAIN rs |->
                                Truthy(rs[i].description) /\ rs[i].description.len > 20])
        readme_count == CountTrue([i \in DOMAIN rs |-> Truthy(rs[i].description)])
        readme_score == Float(readme_count, Len(rs))
        wiki_score == Float(wiki_count, Len(rs))
        description_score == Float(description_count, Len(rs))
    IN  FAdd(FAdd(FMul(readme_score, Tenths[5]), FMul(wiki_score, Tenths[3])),
             FMul(description_score, Tenths[2]))

\* the tiers closed at their upper ends: size <= 1000 and size <= 5000
SizeHalvesInclusive(size) == IF size <= 1000 THEN 2 ELSE IF size <= 5000 THEN 1 ELSE 0

\* the small tier ending below 500 instead of below 1000
SizeHalvesNarrow(size) == IF size < 500 THEN 2 ELSE IF size < 5000 THEN 1 ELSE 0

\* what one repository adds to size_score, in halves: 1, 0.5 or nothing
SizeHalves(size) == IF size < 1000 THEN 2 ELSE IF size < 5000 THEN 1 ELSE 0

calculate_code_quality_metric(rs) ==
    IF Len(rs) = 0 THEN Zero
    ELSE
    LET total_stars == SumTo([i \in DOMAIN rs |-> rs[i].stargazers_count], Len(rs))
        avg_stars == Float(total_stars, Len(rs))
        issues_count == CountTrue([i \in DOMAIN rs |-> rs[i].has_issues])
        \* the sum of the terms 1 and 0.5 is exact
        size_total == Float(SumTo([i \in DOMAIN rs |-> SizeHalves(rs[i].size)], Len(rs)), 2)
        size_score == FDiv(size_total, FromInt(Len(rs)))
        star_score == Min1(FDiv(avg_stars, FromInt(10)))
        issue_score == Float(issues_count, Len(rs))
    IN  FAdd(FAdd(FMul(star_score, Tenths[4]), FMul(issue_score, Tenths[3])),
             FMul(size_score, Tenths[3]))

(***************************************************************************)
(* The score composer.                                                     *)
(***************************************************************************)
\* self.weights
weights ==
    [activity |-> Float(3, 10), diversity |-> Float(2, 10), community |-> Float(2, 10),
     documentation |-> Float(15, 100), code_quality |-> Float(15, 100)]

\* a weight table with diversity at 0.3: the weights sum to 1.1
HeavyWeights == [weights EXCEPT !["diversity"] = Float(3, 10)]

WeightOfHeavy(metric) == HeavyWeights[metric]

\* self.weights[metric]
WeightOf(metric) == weights[metric]

RECURSIVE WeightedSum(_, _)
\* total_score after the first n entries of self.weights
WeightedSum(m, n) ==
    IF n = 0 THEN Zero
    ELSE FAdd(WeightedSum(m, n - 1), FMul(m[MetricOrder[n]], WeightOf(MetricOrder[n])))

calculate_score(m) == FMul(WeightedSum(m, Len(MetricOrder)), FromInt(10))

(***************************************************************************)
(* The feedback generator.                                                 *)
(***************************************************************************)
\* metric.replace('_', ' ')
Label(metric) == IF metric = "code_quality" THEN "code quality" ELSE metric

\* f"{(value*100):.0f}": the float value * 100 printed without decimals,
\* rounded from its exact value, a tie to the even integer
Percent(value) == ToString(RoundHalfEven(FMul(value, FromInt(100))))

NoStrengths == <<"No significant strengths identified">>
NoWeaknesses == <<"No significant weaknesses identified">>
KeepDoing == "Keep doing what you're doing! Your profile is well-balanced"

\* value > 0.7
IsStrengthStrict(value) == FLt(Tenths[7], value)

\* value >= 0.7
IsStrength(value) == FGe(value, Tenths[7])

\* value <= 0.4
IsWeaknessWide(value) == FLe(value, Tenths[4])

\* value <= 0.3
IsWeakness(value) == FLe(value, Tenths[3])

\* metrics[...] <= 0.4
NeedsRecommendationInclusive(value) == FLe(value, Tenths[4])

\* metrics[...] < 0.4
NeedsRecommendation(value) == FLt(value, Tenths[4])

\* the entries of `names`, in order, that satisfy Test
Filter(names, Test(_)) == SelectSeq(names, Test)

get_strengths(m) ==
    LET hit == Filter(MetricOrder, LAMBDA k : IsStrength(m[k]))
        strengths == [i \in DOMAIN hit |->
                        <<"Strong ", Label(hit[i]), " (", Percent(m[hit[i]]), "%)">>]
    IN  IF strengths # <<>> THEN strengths ELSE <<NoStrengths>>

get_weaknesses(m) ==
    LET hit == Filter(MetricOrder, LAMBDA k : IsWeakness(m[k]))
        weaknesses == [i \in DOMAIN hit |->
                        <<"Weak ", Label(hit[i]), " (", Percent(m[hit[i]]), "%)">>]
    IN  IF weaknesses # <<>> THEN weaknesses ELSE <<NoWeaknesses>>

\* the fixed recommendation of each metric
RecommendationOf(metric) ==
    CASE metric = "activity" ->
           "Increase your activity by making regular commits and repository updates"
      [] metric = "diversity" ->
           "Expand your skill set by working with different programming languages"
      [] metric = "community" ->
           "Engage more with the community by contributing to other projects and following developers"
      [] metric = "documentation" ->
           "Improve documentation by adding README files, wikis, and clear descriptions"
      [] metric = "code_quality" ->
           "Focus on code quality by creating smaller, focused repositories with good issue tracking"

get_recommendations(m) ==
    LET hit == Filter(MetricOrder, LAMBDA k : NeedsRecommendation(m[k]))
        recommendations == [i \in DOMAIN hit |-> RecommendationOf(hit[i])]
    IN  IF recommendations # <<>> THEN recommendations ELSE <<KeepDoing>>

\* The four messages of _get_appreciation.  Each ends with a space and the
\* characters Python decodes from the bytes that follow it in the file;
\* these are given by their code points.
Outstanding == <<"Outstanding GitHub Profile! ", 240, 376, 381, 8240>>
Great == <<"Great GitHub Profile! ", 240, 376, 8216>>
GoodStart == <<"Good Start! Keep Improving! ", 240, 376, 8217, 170>>
JustBegun == <<"Your GitHub Journey Has Just Begun! ", 240, 376, 353, 8364>>

\* the top tier starting above 8 instead of at 8
get_appreciation_strict(s) ==
    IF FLt(FromInt(8), s) THEN Outstanding
    ELSE IF FGe(s, FromInt(6)) THEN Great
    ELSE IF FGe(s, FromInt(4)) THEN GoodStart
    ELSE JustBegun

get_appreciation(s) ==
    IF FGe(s, FromInt(8)) THEN Outstanding
    ELSE IF FGe(s, FromInt(6)) THEN Great
    ELSE IF FGe(s, FromInt(4)) THEN GoodStart
    ELSE JustBegun

\* the dictionary analyze_profile returns
Bundle(p, m, s) ==
    [score |-> Round2(s),
     metrics |-> m,
     strengths |-> get_strengths(m),
     weaknesses |-> get_weaknesses(m),
     recommendations |-> get_recommendations(m),
     appreciation |-> get_appreciation(s),
     avatar_url |-> Get(p, "avatar_url", "")]

(***************************************************************************)
(* analyze_profile as a process.                                           *)
(***************************************************************************)
NoResult == [kind |-> "none"]
Returned(b) == [kind |-> "bundle", bundle |-> b]

\* raise Exception(f"Analysis failed: {str(e)}")
AnalysisFailed(message) == [kind |-> "error", message |-> <<"Analysis failed: ">> \o message]

\* raise Exception(f"Failed to fetch <what>: {str(e)}") of GitHubAPI
FetchFailed(what, upstream) == <<"Failed to fetch " \o what \o ": ", upstream>>

NoRepositories == <<"No repositories found for this user">>

Worlds == [profile : ProfileRecords, repos : RepoLists, events : EventLists]

\* no AnalyzerThread has been created
NoThread ==
    /\ loop_i = 0
    /\ signals = <<>>
    /\ handled = 0
    /\ orphans = 0

\* QPropertyAnimation(self.progress_bar, b"value"): not started, no end
\* value set
AnimationAtRest == [state |-> "Stopped", end |-> None]

\* the window as setup_ui and setup_animations leave it: the input page, an
\* empty line edit, the button enabled, the progress bar hidden, its
\* animation not started.  The value of the bar is not held: between
\* setValue(0) and the writes of the animation it depends on the time that
\* has passed, and no handler decides anything by it
WindowAtRest ==
    /\ username_input = <<>>
    /\ analyze_button = TRUE
    /\ progress_bar = [visible |-> FALSE]
    /\ progress_animation = AnimationAtRest
    /\ page = 0
    /\ dialog = "none"

Init ==
    /\ pc = "idle"
    /\ clock = 0
    /\ now0 = 0
    /\ remote \in Worlds
    /\ profile = Unassigned
    /\ repos = Unassigned
    /\ contributions = Unassigned
    /\ fetchLog = <<>>
    /\ called = <<>>
    /\ idx = 0
    /\ event_count = 0
    /\ repo_count = 0
    /\ metrics = <<>>
    /\ score = Unassigned
    /\ result = NoResult
    /\ NoThread
    /\ WindowAtRest

\* time passes while analyze_profile is in progress
Tick ==
    /\ pc \notin {"none", "run", "idle", "done", "emitted", "ended"}
    /\ clock < MaxTicks
    /\ clock' = clock + 1
    /\ UNCHANGED <<pc, now0, remote, profile, repos, contributions, fetchLog,
                   called, idx, event_count, repo_count, metrics, score, result>>
    /\ UNCHANGED <<thread, window>>

\* analyze_profile(username) is entered
Call ==
    /\ pc = "idle"
    /\ pc' = "get_user_profile"
    /\ now0' = clock
    /\ UNCHANGED <<clock, remote, profile, repos, contributions, fetchLog,
                   called, idx, event_count, repo_count, metrics, score, result>>
    /\ UNCHANGED <<thread, window>>

\* an entry of fetchLog: the fetch and "ok" or the message of its failure
Fetch(what, outcome) == [what |-> what, outcome |-> outcome]

\* a failure reported without the message of the request's error
FailGeneric(what, upstream) ==
    /\ result' = AnalysisFailed(<<"Failed to fetch " \o what>>)
    /\ pc' = "done"

\* the request of a fetch fails: the adapter raises, analyze_profile wraps
Fail(what, upstream) ==
    /\ result' = AnalysisFailed(FetchFailed(what, upstream))
    /\ pc' = "done"

GetUserProfile ==
    /\ pc = "get_user_profile"
    /\ \/ /\ pc' = "get_user_repos"
          /\ fetchLog' = Append(fetchLog, Fetch("profile", "ok"))
          /\ profile' = remote.profile
          /\ UNCHANGED result
       \/ /\ \E e \in UpstreamMessages :
                /\ fetchLog' = Append(fetchLog, Fetch("profile", e))
                /\ Fail("profile", e)
          /\ UNCHANGED profile
    /\ UNCHANGED <<clock, now0, remote, repos, contributions, called, idx,
                   event_count, repo_count, metrics, score>>
    /\ UNCHANGED <<thread, window>>

GetUserRepos ==
    /\ pc = "get_user_repos"
    /\ \/ /\ pc' = "get_user_contributions"
          /\ fetchLog' = Append(fetchLog, Fetch("repositories", "ok"))
          /\ repos' = remote.repos
          /\ UNCHANGED result
       \/ /\ \E e \in UpstreamMessages :
                /\ fetchLog' = Append(fetchLog, Fetch("repositories", e))
                /\ Fail("repositories", e)
          /\ UNCHANGED repos
    /\ UNCHANGED <<clock, now0, remote, profile, contributions, called, idx,
                   event_count, repo_count, metrics, score>>
    /\ UNCHANGED <<thread, window>>

GetUserContributions ==
    /\ pc = "get_user_contributions"
    /\ \/ /\ pc' = "check_repos"
          /\ fetchLog' = Append(fetchLog, Fetch("contributions", "ok"))
          /\ contributions' = remote.events
          /\ UNCHANGED result
       \/ /\ \E e \in UpstreamMessages :
                /\ fetchLog' = Append(fetchLog, Fetch("contributions", e))
                /\ Fail("contributions", e)
          /\ UNCHANGED contributions
    /\ UNCHANGED <<clock, now0, remote, profile, repos, called, idx,
                   event_count, repo_count, metrics, score>>
    /\ UNCHANGED <<thread, window>>

\* the guard testing the event list instead of the repository list
CheckContributions ==
    /\ pc = "check_repos"
    /\ IF Len(contributions) = 0
       THEN /\ result' = AnalysisFailed(NoRepositories)
            /\ pc' = "done"
       ELSE /\ pc' = "activity"
            /\ UNCHANGED result
    /\ UNCHANGED <<clock, now0, remote, profile, repos, contributions, fetchLog,
                   called, idx, event_count, repo_count, metrics, score>>
    /\ UNCHANGED <<thread, window>>

\* if not repos: raise Exception("No repositories found for this user")
CheckRepos ==
    /\ pc = "check_repos"
    /\ IF Len(repos) = 0
       THEN /\ result' = AnalysisFailed(NoRepositories)
            /\ pc' = "done"
       ELSE /\ pc' = "activity"
            /\ UNCHANGED result
    /\ UNCHANGED <<clock, now0, remote, profile, repos, contributions, fetchLog,
                   called, idx, event_count, repo_count, metrics, score>>
    /\ UNCHANGED <<thread, window>>

\* _calculate_activity_metric without its early return: the comprehension
\* over an empty event list selects nothing and the repositories are counted
ActivityWithoutEarlyReturn ==
    /\ pc = "activity"
    /\ called' = Append(called, "activity")
    /\ pc' = IF Len(contributions) = 0 THEN "recent_repos" ELSE "recent_events"
    /\ idx' = 1
    /\ UNCHANGED <<clock, now0, remote, profile, repos, contributions, fetchLog,
                   event_count, repo_count, metrics, score, result>>
    /\ UNCHANGED <<thread, window>>

\* _calculate_activity_metric is entered: `if not contributions: return 0.0`
Activity ==
    /\ pc = "activity"
    /\ called' = Append(called, "activity")
    /\ IF Len(contributions) = 0
       THEN /\ metrics' = ("activity" :> Zero)
            /\ pc' = "diversity"
            /\ UNCHANGED idx
       ELSE /\ pc' = "recent_events"
            /\ idx' = 1
            /\ UNCHANGED metrics
    /\ UNCHANGED <<clock, now0, remote, profile, repos, contributions, fetchLog,
                   event_count, repo_count, score, result>>
    /\ UNCHANGED <<thread, window>>

\* one element of the comprehension over contributions: reads the clock
RecentEvents ==
    /\ pc = "recent_events"
    /\ event_count' = event_count +
            (IF IsRecent(contributions[idx].created_at, clock, 30) THEN 1 ELSE 0)
    /\ IF idx < Len(contributions)
       THEN idx' = idx + 1 /\ UNCHANGED pc
       ELSE idx' = 1 /\ pc' = "recent_repos"
    /\ UNCHANGED <<clock, now0, remote, profile, repos, contributions, fetchLog,
                   called, repo_count, metrics, score, result>>
    /\ UNCHANGED <<thread, window>>

\* one element of the comprehension over repos: reads the clock; after the
\* last one the scores are normalised and blended
RecentRepos ==
    /\ pc = "recent_repos"
    /\ LET n == repo_count +
                (IF IsRecent(repos[idx].updated_at, clock, 90) THEN 1 ELSE 0)
       IN  /\ repo_count' = n
           /\ IF idx < Len(repos)
              THEN idx' = idx + 1 /\ UNCHANGED <<pc, metrics>>
              ELSE /\ idx' = 0
                   /\ pc' = "diversity"
                   /\ metrics' = ("activity" :> ActivityValue(event_count, n, repos))
    /\ UNCHANGED <<clock, now0, remote, profile, repos, contributions, fetchLog,
                   called, event_count, score, result>>
    /\ UNCHANGED <<thread, window>>

Diversity ==
    /\ pc = "diversity"
    /\ called' = Append(called, "diversity")
    /\ metrics' = metrics @@ ("diversity" :> calculate_diversity_metric(repos))
    /\ pc' = "community"
    /\ UNCHANGED <<clock, now0, remote, profile, repos, contributions, fetchLog,
                   idx, event_count, repo_count, score, result>>
    /\ UNCHANGED <<thread, window>>

Community ==
    /\ pc = "community"
    /\ called' = Append(called, "community")
    /\ metrics' = metrics @@ ("community" :> calculate_community_metric(profile, repos))
    /\ pc' = "documentation"
    /\ UNCHANGED <<clock, now0, remote, profile, repos, contributions, fetchLog,
                   idx, event_count, repo_count, score, result>>
    /\ UNCHANGED <<thread, window>>

Documentation ==
    /\ pc = "documentation"
    /\ called' = Append(called, "documentation")
    /\ metrics' = metrics @@ ("documentation" :> calculate_documentation_metric(repos))
    /\ pc' = "code_quality"
    /\ UNCHANGED <<clock, now0, remote, profile, repos, contributions, fetchLog,
                   idx, event_count, repo_count, score, result>>
    /\ UNCHANGED <<thread, window>>

CodeQuality ==
    /\ pc = "code_quality"
    /\ called' = Append(called, "code_quality")
    /\ metrics' = metrics @@ ("code_quality" :> calculate_code_quality_metric(repos))
    /\ pc' = "compose"
    /\ UNCHANGED <<clock, now0, remote, profile, repos, contributions, fetchLog,
                   idx, event_count, repo_count, score, result>>
    /\ UNCHANGED <<thread, window>>

\* score = self._calculate_score(metrics); return {...}
Compose ==
    /\ pc = "compose"
    /\ pc' = "done"
    /\ score' = calculate_score(metrics)
    /\ result' = Returned(Bundle(profile, metrics, score'))
    /\ UNCHANGED <<clock, now0, remote, profile, repos, contributions, fetchLog,
                   called, idx, event_count, repo_count, metrics>>
    /\ UNCHANGED <<thread, window>>

Next ==
    \/ Tick
    \/ Call
    \/ GetUserProfile
    \/ GetUserRepos
    \/ GetUserContributions
    \/ CheckRepos
    \/ Activity
    \/ RecentEvents
    \/ RecentRepos
    \/ Diversity
    \/ Community
    \/ Documentation
    \/ CodeQuality
    \/ Compose

Spec == Init /\ [][Next]_vars

(***************************************************************************)
(* AnalyzerThread.run: the progress loop, analyze_profile, the final       *)
(* signal.                                                                 *)
(***************************************************************************)
\* range(1, 101)
ProgressSteps == 100

\* an emission of one of the thread's signals with its argument
Signal(name, arg) == [name |-> name, arg |-> arg]

\* one iteration of `for i in range(1, 101)`: self.progress.emit(i); after
\* the last one analyze_profile is about to be called
Progress ==
    /\ pc = "run"
    /\ loop_i < ProgressSteps
    /\ loop_i' = loop_i + 1
    /\ signals' = Append(signals, Signal("progress", loop_i + 1))
    /\ pc' = IF loop_i + 1 = ProgressSteps THEN "idle" ELSE "run"
    /\ UNCHANGED <<clock, now0, remote, profile, repos, contributions, fetchLog,
                   called, idx, event_count, repo_count, metrics, score, result>>
    /\ UNCHANGED <<handled, orphans, window>>

\* run without its except clause: the exception of analyze_profile leaves run
EmitUnlessRaised ==
    /\ pc = "done"
    /\ IF result.kind = "bundle"
       THEN /\ signals' = Append(signals, Signal("finished", result.bundle))
            /\ pc' = "emitted"
       ELSE /\ UNCHANGED signals
            /\ pc' = "escaped"
    /\ UNCHANGED <<clock, now0, remote, profile, repos, contributions, fetchLog,
                   called, idx, event_count, repo_count, metrics, score, result>>
    /\ UNCHANGED <<loop_i, handled, orphans, window>>

\* self.finished.emit(result), or `except Exception as e:
\* self.error.emit(str(e))`: the call of the slot is queued to the main
\* thread; run has not returned yet
Emit ==
    /\ pc = "done"
    /\ signals' = Append(signals,
            IF result.kind = "bundle"
            THEN Signal("finished", result.bundle)
            ELSE Signal("error", result.message))
    /\ pc' = "emitted"
    /\ UNCHANGED <<clock, now0, remote, profile, repos, contributions, fetchLog,
                   called, idx, event_count, repo_count, metrics, score, result>>
    /\ UNCHANGED <<loop_i, handled, orphans, window>>

\* run returns after the emission: the thread of self.analyzer_thread ends
Return ==
    /\ pc = "emitted"
    /\ pc' = "ended"
    /\ UNCHANGED <<clock, now0, remote, profile, repos, contributions, fetchLog,
                   called, idx, event_count, repo_count, metrics, score, result>>
    /\ UNCHANGED <<thread, window>>

\* the window right after its first start_analysis has started a thread for
\* `username`
Analyzing(username) ==
    /\ username_input = username
    /\ analyze_button = FALSE
    /\ progress_bar = [visible |-> TRUE]
    /\ progress_animation = AnimationAtRest
    /\ page = 0
    /\ dialog = "none"

\* AnalyzerThread(username).start(): run is entered
InitWorker ==
    /\ pc = "run"
    /\ clock = 0
    /\ now0 = 0
    /\ remote \in Worlds
    /\ profile = Unassigned
    /\ repos = Unassigned
    /\ contributions = Unassigned
    /\ fetchLog = <<>>
    /\ called = <<>>
    /\ idx = 0
    /\ event_count = 0
    /\ repo_count = 0
    /\ metrics = <<>>
    /\ score = Unassigned
    /\ result = NoResult
    /\ NoThread
    /\ Analyzing(<<103, 104>>)

NextWorker ==
    \/ Progress
    \/ Next
    \/ Emit
    \/ Return

SpecWorker == InitWorker /\ [][NextWorker]_vars

(***************************************************************************)
(* MainWindow: the user, start_analysis and the slots of the thread's      *)
(* signals.  The signals are emitted in the worker thread and their slots  *)
(* run in the main thread, in the order of emission.                       *)
(***************************************************************************)
\* str.isspace() of a character: the code points str.strip() removes
Whitespace ==
    (9..13) \cup (28..32) \cup {133, 160, 5760} \cup (8192..8202)
        \cup {8232, 8233, 8239, 8287, 12288}

RECURSIVE LStrip(_)
\* the text without its leading whitespace
LStrip(text) ==
    IF text # <<>> /\ text[1] \in Whitespace THEN LStrip(Tail(text)) ELSE text

RECURSIVE RStrip(_)
\* the text without its trailing whitespace
RStrip(text) ==
    IF text # <<>> /\ text[Len(text)] \in Whitespace
    THEN RStrip(SubSeq(text, 1, Len(text) - 1))
    ELSE text

\* str.strip()
Strip(text) == RStrip(LStrip(text))

\* what the user may type: a space, a tab and a no-break space; the name
\* "gh" after a tab and before an ideographic space
Usernames == {<<32, 9, 160>>, <<9, 103, 104, 12288>>}

\* a thread has been started and the slot of its finished or error signal has
\* not run yet
Unhandled == pc # "none" /\ ~(pc \in {"emitted", "ended"} /\ handled = Len(signals))

\* the user edits the line edit of the input page
TypeUsername ==
    /\ page = 0
    /\ dialog = "none"
    /\ \E text \in Usernames \ {username_input} : username_input' = text
    /\ UNCHANGED <<pc, clock, now0, remote, profile, repos, contributions, fetchLog,
                   called, idx, event_count, repo_count, metrics, score, result>>
    /\ UNCHANGED <<thread, analyze_button, progress_bar, progress_animation, page, dialog>>

\* start_analysis without setEnabled(False)
start_analysis_keeps_button ==
    /\ analyze_button
    /\ page = 0
    /\ dialog = "none"
    /\ IF Strip(username_input) = <<>>
       THEN /\ dialog' = "warning"
            /\ UNCHANGED <<pc, profile, repos, contributions, fetchLog, called, idx,
                           event_count, repo_count, metrics, score, result>>
            /\ UNCHANGED <<thread, analyze_button, progress_bar>>
       ELSE /\ progress_bar' = [visible |-> TRUE]
            /\ orphans' = orphans + (IF Unhandled THEN 1 ELSE 0)
            /\ pc' = "run"
            /\ loop_i' = 0
            /\ signals' = <<>>
            /\ handled' = 0
            /\ profile' = Unassigned
            /\ repos' = Unassigned
            /\ contributions' = Unassigned
            /\ fetchLog' = <<>>
            /\ called' = <<>>
            /\ idx' = 0
            /\ event_count' = 0
            /\ repo_count' = 0
            /\ metrics' = <<>>
            /\ score' = Unassigned
            /\ result' = NoResult
            /\ UNCHANGED <<analyze_button, dialog>>
    /\ UNCHANGED <<clock, now0, remote, username_input, progress_animation, page>>

\* the user clicks the enabled button: start_analysis.  An empty username
\* gets a warning; otherwise the button is disabled, the bar shown (and set
\* to 0) and a new AnalyzerThread replaces self.analyzer_thread and is
\* started; nothing asks whether the replaced one has finished
start_analysis ==
    /\ analyze_button
    /\ page = 0
    /\ dialog = "none"
    /\ IF Strip(username_input) = <<>>
       THEN /\ dialog' = "warning"
            /\ UNCHANGED <<pc, profile, repos, contributions, fetchLog, called, idx,
                           event_count, repo_count, metrics, score, result>>
            /\ UNCHANGED <<thread, analyze_button, progress_bar>>
       ELSE /\ analyze_button' = FALSE
            /\ progress_bar' = [visible |-> TRUE]
            /\ orphans' = orphans + (IF Unhandled THEN 1 ELSE 0)
            /\ pc' = "run"
            /\ loop_i' = 0
            /\ signals' = <<>>
            /\ handled' = 0
            /\ profile' = Unassigned
            /\ repos' = Unassigned
            /\ contributions' = Unassigned
            /\ fetchLog' = <<>>
            /\ called' = <<>>
            /\ idx' = 0
            /\ event_count' = 0
            /\ repo_count' = 0
            /\ metrics' = <<>>
            /\ score' = Unassigned
            /\ result' = NoResult
            /\ UNCHANGED dialog
    /\ UNCHANGED <<clock, now0, remote, username_input, progress_animation, page>>

\* the signal whose slot the main thread runs next
Pending(name) == handled < Len(signals) /\ signals[handled + 1].name = name

\* the slot of progress: setStartValue(self.progress_bar.value()),
\* setEndValue(value), start().  The animation runs towards the value of the
\* signal from here on, whether it was stopped or still running towards the
\* value of an earlier signal
update_progress ==
    /\ Pending("progress")
    /\ handled' = handled + 1
    /\ progress_animation' = [state |-> "Running", end |-> signals[handled + 1].arg]
    /\ UNCHANGED <<pc, clock, now0, remote, profile, repos, contributions, fetchLog,
                   called, idx, event_count, repo_count, metrics, score, result>>
    /\ UNCHANGED <<loop_i, signals, orphans, username_input, analyze_button,
                   progress_bar, page, dialog>>

\* the 300 ms of the running animation are over: the timer callback that
\* ends it, run by the event loop.  The callbacks before it write the bar's
\* value only
Animate ==
    /\ progress_animation.state = "Running"
    /\ progress_animation' = [progress_animation EXCEPT !.state = "Stopped"]
    /\ UNCHANGED <<pc, clock, now0, remote, profile, repos, contributions, fetchLog,
                   called, idx, event_count, repo_count, metrics, score, result>>
    /\ UNCHANGED <<thread, username_input, analyze_button, progress_bar, page, dialog>>

\* the slot of finished: the button enabled, the bar hidden, the results page
show_results ==
    /\ Pending("finished")
    /\ handled' = handled + 1
    /\ analyze_button' = TRUE
    /\ progress_bar' = [progress_bar EXCEPT !.visible = FALSE]
    /\ page' = 1
    /\ UNCHANGED <<pc, clock, now0, remote, profile, repos, contributions, fetchLog,
                   called, idx, event_count, repo_count, metrics, score, result>>
    /\ UNCHANGED <<loop_i, signals, orphans, username_input, progress_animation, dialog>>

\* the slot of error: the button enabled, the bar hidden, a message box
show_error ==
    /\ Pending("error")
    /\ handled' = handled + 1
    /\ analyze_button' = TRUE
    /\ progress_bar' = [progress_bar EXCEPT !.visible = FALSE]
    /\ dialog' = "critical"
    /\ UNCHANGED <<pc, clock, now0, remote, profile, repos, contributions, fetchLog,
                   called, idx, event_count, repo_count, metrics, score, result>>
    /\ UNCHANGED <<loop_i, signals, orphans, username_input, progress_animation, page>>

\* the user closes the message box
CloseDialog ==
    /\ dialog # "none"
    /\ dialog' = "none"
    /\ UNCHANGED <<pc, clock, now0, remote, profile, repos, contributions, fetchLog,
                   called, idx, event_count, repo_count, metrics, score, result>>
    /\ UNCHANGED <<thread, username_input, analyze_button, progress_bar, progress_animation, page>>

\* the back button of the results page: show_input_page
show_input_page ==
    /\ page = 1
    /\ dialog = "none"
    /\ page' = 0
    /\ username_input' = <<>>
    /\ UNCHANGED <<pc, clock, now0, remote, profile, repos, contributions, fetchLog,
                   called, idx, event_count, repo_count, metrics, score, result>>
    /\ UNCHANGED <<thread, analyze_button, progress_bar, progress_animation, dialog>>

\* a user with one repository and one event
WindowWorlds ==
    {[profile |-> [followers |-> 0, following |-> 0, avatar_url |-> "avatar"],
      repos |-> <<RepoBare>>, events |-> <<Event(-29)>>]}

\* MainWindow() is shown; no thread exists
InitWindow ==
    /\ pc = "none"
    /\ clock = 0
    /\ now0 = 0
    /\ remote \in WindowWorlds
    /\ profile = Unassigned
    /\ repos = Unassigned
    /\ contributions = Unassigned
    /\ fetchLog = <<>>
    /\ called = <<>>
    /\ idx = 0
    /\ event_count = 0
    /\ repo_count = 0
    /\ metrics = <<>>
    /\ score = Unassigned
    /\ result = NoResult
    /\ NoThread
    /\ WindowAtRest

\* the slots of the thread's signals, run by the event loop of the main thread
Slots ==
    \/ update_progress
    \/ show_results
    \/ show_error

NextWindow ==
    \/ TypeUsername
    \/ start_analysis
    \/ NextWorker
    \/ Slots
    \/ Animate
    \/ CloseDialog
    \/ show_input_page

\* what every step of the thread changes
position == <<pc, loop_i, idx, clock>>

\* a started thread keeps running (the sleeps and the requests are bounded in
\* time) and the event loop keeps running the slots of the queued signals
SpecWindow ==
    /\ InitWindow
    /\ [][NextWindow]_vars
    /\ WF_position(NextWorker)
    /\ WF_handled(Slots)

(***************************************************************************)
(* The score composer and the feedback generator on given metric sets.     *)
(***************************************************************************)
\* the thresholds 0.3, 0.4 and 0.7, the ends of [0,1] and two values next to
\* the ends
MetricGrid ==
    {Zero, Float(2, 100), Float(3, 10), Float(4, 10), Float(7, 10),
     Float(998, 1000), One}

MetricSets == [MetricNames -> MetricGrid]

InitFeedback ==
    /\ pc = "compose"
    /\ clock = 0
    /\ now0 = 0
    /\ remote = [profile |-> [login |-> "user"], repos |-> <<RepoGo>>, events |-> <<>>]
    /\ profile = [login |-> "user"]
    /\ repos = <<RepoGo>>
    /\ contributions = <<>>
    /\ fetchLog = <<[what |-> "profile", outcome |-> "ok"],
                    [what |-> "repositories", outcome |-> "ok"],
                    [what |-> "contributions", outcome |-> "ok"]>>
    /\ called = MetricOrder
    /\ idx = 0
    /\ event_count = 0
    /\ repo_count = 0
    /\ metrics \in MetricSets
    /\ score = Unassigned
    /\ result = NoResult
    /\ NoThread
    /\ WindowAtRest

NextFeedback == Compose

SpecFeedback == InitFeedback /\ [][NextFeedback]_vars

(***************************************************************************)
(* The diversity metric on longer repository lists.                        *)
(***************************************************************************)
\* repositories in four more languages; one repeats a topic within its list
RepoRust == [RepoGo EXCEPT !.language = "Rust", !.topics = <<"t1", "t12", "t15", "t16">>]
RepoC == [RepoGo EXCEPT !.language = "C", !.topics = <<"t13", "t13">>]
RepoJava == [RepoGo EXCEPT !.language = "Java"]
RepoRuby == [RepoGo EXCEPT !.language = "Ruby", !.topics = <<"t14">>]

DiversityRecords ==
    <<RepoGo, RepoPopular, RepoBare, RepoSmall, RepoRust, RepoC, RepoJava, RepoRuby>>

\* the records of DiversityRecords at the positions I, in that order
Pick(I) ==
    SelectSeq(DiversityRecords, LAMBDA r : r \in {DiversityRecords[i] : i \in I})

Reversed(s) == [i \in DOMAIN s |-> s[Len(s) + 1 - i]]

\* a list, the list reordered, and both with repositories repeated
Variants(s) == {s, Reversed(s), s \o s, Reversed(s) \o <<s[1]>>}

DiversityLists ==
    UNION {Variants(Pick(I)) : I \in (SUBSET DOMAIN DiversityRecords) \ {{}}}

\* analyze_profile has fetched a non-empty repository list and no event, and
\* _calculate_metrics has computed the activity metric
InitDiversity ==
    /\ pc = "diversity"
    /\ clock = 0
    /\ now0 = 0
    /\ repos \in DiversityLists
    /\ profile = [login |-> "user"]
    /\ contributions = <<>>
    /\ remote = [profile |-> profile, repos |-> repos, events |-> contributions]
    /\ fetchLog = <<[what |-> "profile", outcome |-> "ok"],
                    [what |-> "repositories", outcome |-> "ok"],
                    [what |-> "contributions", outcome |-> "ok"]>>
    /\ called = <<"activity">>
    /\ idx = 0
    /\ event_count = 0
    /\ repo_count = 0
    /\ metrics = ("activity" :> Zero)
    /\ score = Unassigned
    /\ result = NoResult
    /\ NoThread
    /\ WindowAtRest

NextDiversity == Diversity

SpecDiversity == InitDiversity /\ [][NextDiversity]_vars

(***************************************************************************)
(* Properties.                                                             *)
(***************************************************************************)
\* The real numbers of the specification's formulas, where these are over
\* counts: the rational n / d is the pair <<n, d>> in lowest terms, d > 0.
Abs(a) == IF a < 0 THEN -a ELSE a

RECURSIVE GCD(_, _)
GCD(a, b) == IF b = 0 THEN a ELSE GCD(b, a % b)

LCM(a, b) == (a \div GCD(a, b)) * b

Frac(n, d) ==
    LET g == GCD(Abs(n), d)
    IN  IF g = 0 THEN <<0, 1>> ELSE <<n \div g, d \div g>>

RAdd(x, y) ==
    CHOOSE sum \in {LET l == LCM(p[2], q[2])
                    IN  Frac(p[1] * (l \div p[2]) + q[1] * (l \div q[2]), l) :
                        p \in {x}, q \in {y}} : TRUE

RMul(x, y) ==
    CHOOSE product \in {Frac(a[1] * b[1], a[2] * b[2]) :
                            a \in {Frac(p[1], q[2]) : p \in {x}, q \in {y}},
                            b \in {Frac(q[1], p[2]) : p \in {x}, q \in {y}}} : TRUE

RLe(x, y) == x[1] * y[2] <= y[1] * x[2]

\* min(x, 1) of a rational
RMin1(x) == IF RLe(x, Frac(1, 1)) THEN x ELSE Frac(1, 1)

RECURSIVE SubFrom(_, _, _, _)
SubFrom(a, b, i, borrow) ==
    IF i > Len(a)
    THEN <<>>
    ELSE <<(Limb(a, i) - Limb(b, i) - borrow + Base) % Base>>
            \o SubFrom(a, b, i + 1, IF Limb(a, i) - Limb(b, i) - borrow < 0 THEN 1 ELSE 0)

\* a - b for natural numbers a >= b
BigSub(a, b) == Trim(CHOOSE d \in {SubFrom(v, w, 1, 0) : v \in {a}, w \in {b}} : TRUE)

\* |x - y| of two values m * 2^e, exactly
Distance(x, y) ==
    CHOOSE d \in {LET e == Min(p[2], q[2])
                      a == ShiftLeft(p[1], p[2] - e)
                      b == ShiftLeft(q[1], q[2] - e)
                  IN  <<IF BigCmp(a, b) >= 0 THEN BigSub(a, b) ELSE BigSub(b, a), e>> :
                      p \in {x}, q \in {y}} : TRUE

\* The float x is the real number n / d up to the rounding error of float
\* arithmetic: |x - n/d| <= 2^-bits.  The values of the metrics are at most
\* 1, where floats lie 2^-53 apart; a metric is computed with at most
\* eleven roundings.
Near(x, r, bits) ==
    FLe(Distance(<<BigMul(x[1], Big(r[2])), x[2]>>, <<Big(r[1]), 0>>),
        <<Big(r[2]), 0 - bits>>)

InUnit(x) == FLe(Zero, x) /\ FLe(x, One)

\* C1: every value a metric function has returned, for profiles with
\* non-negative followers/following, non-empty repository lists with
\* non-negative counts and sizes and any event list, lies in [0,1].
C1_MetricsInUnitInterval ==
    \A k \in DOMAIN metrics : InUnit(metrics[k])

\* a run returned all five metrics for a profile above both follower caps
\* whose repositories exceed the fork and star caps and the topic cap
C1_Witness ==
    /\ result.kind = "bundle"
    /\ DOMAIN result.bundle.metrics = MetricNames
    /\ Get(profile, "followers", 0) > 100
    /\ Get(profile, "following", 0) > 50
    /\ repos = <<RepoPopular>>
    /\ Len(contributions) > 30
    /\ result.bundle.metrics["community"] = One
    /\ result.bundle.metrics["activity"] = One

\* 100 * 10 * (0.30*activity + 0.20*diversity + 0.20*community
\* + 0.15*documentation + 0.15*code_quality), exactly: a value m * 2^e
HundredTimesComposite(m) ==
    ExactSum(ExactSum(ExactSum(ExactSum(TimesInt(m["activity"], 300),
                                        TimesInt(m["diversity"], 200)),
                               TimesInt(m["community"], 200)),
                      TimesInt(m["documentation"], 150)),
             TimesInt(m["code_quality"], 150))

\* x is the composite of m rounded to two decimals: x is the float of a whole
\* number N of hundredths, and no whole number of hundredths is nearer to the
\* composite than N, up to the rounding error 2^-40 of the float sum
IsRound2(x, m) ==
    LET N == RoundHalfEven(TimesInt(x, 100))
    IN  /\ x = Float(N, 100)
        /\ FLe(Distance(FromInt(N), HundredTimesComposite(m)),
               ExactSum(<<<<1>>, -1>>, <<<<1>>, -40>>))

\* the sum of self.weights, as Python adds floats
WeightTotal ==
    FAdd(FAdd(FAdd(FAdd(WeightOf("activity"), WeightOf("diversity")),
                   WeightOf("community")),
              WeightOf("documentation")),
         WeightOf("code_quality"))

\* C2: for a metric set with all values in [0,1] the bundle's score is
\* round(10 * (0.30*activity + 0.20*diversity + 0.20*community
\* + 0.15*documentation + 0.15*code_quality), 2), the weights sum to 1.0 and
\* the score lies in [0,10].
C2_ScoreIsWeightedSum ==
    result.kind = "bundle" =>
        /\ IsRound2(result.bundle.score, result.bundle.metrics)
        /\ WeightTotal = One
        /\ FLe(Zero, result.bundle.score)
        /\ FLe(result.bundle.score, FromInt(10))

\* a bundle whose composite, just below 9.997, was rounded to 10.0
C2_Witness ==
    /\ result.kind = "bundle"
    /\ result.bundle.metrics =
          [activity |-> One, diversity |-> One, community |-> One,
           documentation |-> One, code_quality |-> Float(998, 1000)]
    /\ FLt(score, FromInt(10))
    /\ result.bundle.score = FromInt(10)

\* the fetch `what` was issued and succeeded
Fetched(what) ==
    \E i \in DOMAIN fetchLog : fetchLog[i].what = what /\ fetchLog[i].outcome = "ok"

\* C3: once the repository list has been fetched and is empty, no metric
\* function is invoked and no bundle is returned, and the run ends raising;
\* with the profile and the event list fetched, whatever they hold, what it
\* raises is the precondition failure wrapped as an analysis failure.
C3_EmptyReposRaise ==
    (Fetched("repositories") /\ Len(repos) = 0) =>
        /\ called = <<>>
        /\ metrics = <<>>
        /\ result.kind # "bundle"
        /\ pc = "done" => result.kind = "error"
        /\ (pc = "done" /\ Fetched("contributions")) =>
                result = AnalysisFailed(NoRepositories)

\* a run over a followed profile with events and no repository has raised
C3_Witness ==
    /\ pc = "done"
    /\ Fetched("repositories") /\ Len(repos) = 0
    /\ Fetched("contributions") /\ Len(contributions) > 0
    /\ Get(profile, "followers", 0) > 0
    /\ result = AnalysisFailed(NoRepositories)

\* the events and the repositories counted as recent against one reading n
\* of the clock, blended as _calculate_activity_metric blends them
ActivityAt(events, rs, n) ==
    IF Len(events) = 0 THEN Zero
    ELSE ActivityValue(
            Cardinality({i \in DOMAIN events : IsRecent(events[i].created_at, n, 30)}),
            Cardinality({i \in DOMAIN rs : IsRecent(rs[i].updated_at, n, 90)}),
            rs)

\* the fraction of repositories updated within 90 days of n, a rational
RepoScoreAt(rs, n) ==
    Frac(Cardinality({i \in DOMAIN rs : IsRecent(rs[i].updated_at, n, 90)}), Len(rs))

\* C4 as stated: with no event and some repository the activity metric is
\* 0.4 * repo_score, for the clock as read at some moment of the run.
C4_ActivityIsRepoTerm ==
    (result.kind = "bundle" /\ Len(contributions) = 0) =>
        \E n \in now0..clock :
            Near(metrics["activity"], RMul(Frac(4, 10), RepoScoreAt(repos, n)), 50)

\* C4 (amended): with no event the activity metric is 0.0, whatever the
\* repositories' update times: the repo-recency term is not counted.
C4_ActivityZeroWithoutEvents ==
    ("activity" \in DOMAIN metrics /\ Len(contributions) = 0) =>
        metrics["activity"] = Zero

\* a run without events whose repositories were all updated recently
C4_Witness ==
    /\ result.kind = "bundle"
    /\ Len(contributions) = 0
    /\ repos = <<RepoPopular, RepoSmall>>
    /\ RepoScoreAt(repos, clock) = Frac(1, 1)
    /\ result.bundle.metrics["activity"] = Zero

\* C5: a run classifies every record against one reading of the clock, so its
\* activity metric is the one some single `now` of the run gives.
C5_SingleNow ==
    result.kind = "bundle" =>
        \E n \in now0..clock :
            result.bundle.metrics["activity"] = ActivityAt(contributions, repos, n)

\* the names of the fetches issued
FetchNames == [i \in DOMAIN fetchLog |-> fetchLog[i].what]

FetchOrder == <<"profile", "repositories", "contributions">>

\* C6: the fetches are issued in the order profile, repositories, events,
\* each at most once; after a failed fetch nothing more is fetched, no metric
\* is computed, no bundle is returned, and the run has ended with one
\* analysis failure whose message holds the message of the fetch error.
C6_FetchFailureSurfaces ==
    /\ Len(fetchLog) <= Len(FetchOrder)
    /\ FetchNames = SubSeq(FetchOrder, 1, Len(fetchLog))
    /\ \A i \in DOMAIN fetchLog :
          fetchLog[i].outcome # "ok" =>
              /\ i = Len(fetchLog)
              /\ called = <<>>
              /\ metrics = <<>>
              /\ pc = "done"
              /\ result.kind = "error"
              /\ result.message[1] = "Analysis failed: "
              /\ SubSeq(result.message, 2, Len(result.message))
                    = FetchFailed(fetchLog[i].what, fetchLog[i].outcome)
              /\ result.message[Len(result.message)] = fetchLog[i].outcome

\* the fetch of the repositories failed after the profile was fetched
C6_Witness ==
    /\ Len(fetchLog) = 2
    /\ fetchLog[1].outcome = "ok"
    /\ fetchLog[2] = Fetch("repositories", "timeout")
    /\ result.kind = "error"
    /\ result.message
          = <<"Analysis failed: ", "Failed to fetch repositories: ", "timeout">>

\* the position of a metric in the fixed order
Position(metric) == CHOOSE i \in DOMAIN MetricOrder : MetricOrder[i] = metric

\* `list` names metric k with the given prefix, as its label
Lists(list, prefix, k) ==
    \E i \in DOMAIN list :
        /\ Len(list[i]) > 1
        /\ list[i][1] = prefix
        /\ list[i][2] = Label(k)

\* the entries of `list` name distinct metrics in the fixed metric order
InMetricOrder(list, holder) ==
    \/ list = <<holder>>
    \/ \A i \in DOMAIN list :
          /\ \E k \in MetricNames : list[i][2] = Label(k)
          /\ \A j \in DOMAIN list :
                i < j =>
                    \A k1, k2 \in MetricNames :
                        (list[i][2] = Label(k1) /\ list[j][2] = Label(k2))
                            => Position(k1) < Position(k2)

\* C7: a metric is listed as a strength exactly if its value is >= 0.7 and as
\* a weakness exactly if its value is <= 0.3; the entries follow the order
\* activity, diversity, community, documentation, code_quality; a list is the
\* single placeholder exactly if no metric qualifies, and is never empty.
C7_StrengthsAndWeaknesses ==
    result.kind = "bundle" =>
        LET b == result.bundle
            m == b.metrics
        IN  /\ \A k \in MetricNames :
                  /\ Lists(b.strengths, "Strong ", k) <=> FGe(m[k], Float(7, 10))
                  /\ Lists(b.weaknesses, "Weak ", k) <=> FLe(m[k], Float(3, 10))
            /\ InMetricOrder(b.strengths, NoStrengths)
            /\ InMetricOrder(b.weaknesses, NoWeaknesses)
            /\ b.strengths = <<NoStrengths>>
                  <=> \A k \in MetricNames : FLt(m[k], Float(7, 10))
            /\ b.weaknesses = <<NoWeaknesses>>
                  <=> \A k \in MetricNames : FLt(Float(3, 10), m[k])
            /\ Len(b.strengths) > 0
            /\ Len(b.weaknesses) > 0

\* a bundle with activity at exactly 0.70 and code quality at exactly 0.30
C7_Witness ==
    /\ result.kind = "bundle"
    /\ result.bundle.metrics["activity"] = Float(7, 10)
    /\ result.bundle.metrics["code_quality"] = Float(3, 10)
    /\ result.bundle.metrics["community"] = One
    /\ result.bundle.metrics["diversity"] = Float(4, 10)
    /\ result.bundle.metrics["documentation"] = Float(4, 10)
    /\ result.bundle.strengths
          = <<<<"Strong ", "activity", " (", "70", "%)">>,
              <<"Strong ", "community", " (", "100", "%)">>>>
    /\ result.bundle.weaknesses = <<<<"Weak ", "code quality", " (", "30", "%)">>>>

\* how often x occurs in the list
Occurrences(list, x) == Cardinality({i \in DOMAIN list : list[i] = x})

\* C8: the recommendations hold a metric's fixed string exactly if its value
\* is < 0.4 (0.40 itself gives none), at most once per metric and at most
\* five in all, and are the single positive placeholder exactly if all five
\* metrics are >= 0.4.
C8_Recommendations ==
    result.kind = "bundle" =>
        LET r == result.bundle.recommendations
            m == result.bundle.metrics
        IN  /\ \A k \in MetricNames :
                  /\ Occurrences(r, RecommendationOf(k)) > 0 <=> FLt(m[k], Float(4, 10))
                  /\ Occurrences(r, RecommendationOf(k)) <= 1
            /\ Len(r) <= 5
            /\ r = <<KeepDoing>> <=> \A k \in MetricNames : FGe(m[k], Float(4, 10))

\* a bundle with documentation at exactly 0.40 and diversity just below
C8_Witness ==
    /\ result.kind = "bundle"
    /\ result.bundle.metrics["documentation"] = Float(4, 10)
    /\ result.bundle.metrics["diversity"] = Float(3, 10)
    /\ result.bundle.metrics["activity"] = One
    /\ result.bundle.metrics["community"] = One
    /\ result.bundle.metrics["code_quality"] = One
    /\ result.bundle.recommendations = <<RecommendationOf("diversity")>>

\* C9: the appreciation is the top message for a composite >= 8, the second
\* for 6 <= composite < 8, the third for 4 <= composite < 6 and the lowest
\* below 4; so 8.0 is top tier, 7.99 second tier and 3.99 lowest tier.
C9_AppreciationTiers ==
    result.kind = "bundle" =>
        LET a == result.bundle.appreciation
        IN  /\ a \in {Outstanding, Great, GoodStart, JustBegun}
            /\ Cardinality({Outstanding, Great, GoodStart, JustBegun}) = 4
            /\ a = Outstanding <=> FGe(score, FromInt(8))
            /\ a = Great <=> (FGe(score, FromInt(6)) /\ FLt(score, FromInt(8)))
            /\ a = GoodStart <=> (FGe(score, FromInt(4)) /\ FLt(score, FromInt(6)))
            /\ a = JustBegun <=> FLt(score, FromInt(4))
            /\ get_appreciation(FromInt(8)) = Outstanding
            /\ get_appreciation(Float(799, 100)) = Great
            /\ get_appreciation(Float(399, 100)) = JustBegun

\* a bundle whose composite is exactly 8.0, with the top message
C9_Witness ==
    /\ result.kind = "bundle"
    /\ score = FromInt(8)
    /\ result.bundle.appreciation = Outstanding

\* C10: the worked example (one Go repository of size 500 updated 200 days
\* ago, no events, no followers) gives activity 0, diversity 0.14, community
\* 0, documentation 0, code quality 0.3 and the score 0.73.
C10_WorkedExample ==
    (/\ result.kind = "bundle"
     /\ repos = <<RepoGo>>
     /\ contributions = <<>>
     /\ Get(profile, "followers", 0) = 0
     /\ Get(profile, "following", 0) = 0) =>
        /\ DOMAIN result.bundle.metrics = MetricNames
        /\ result.bundle.metrics["activity"] = Zero
        /\ Near(result.bundle.metrics["diversity"], Frac(14, 100), 50)
        /\ result.bundle.metrics["community"] = Zero
        /\ result.bundle.metrics["documentation"] = Zero
        /\ Near(result.bundle.metrics["code_quality"], Frac(3, 10), 50)
        /\ result.bundle.score = Float(73, 100)

\* the run over the worked example has returned
C10_Witness ==
    /\ result.kind = "bundle"
    /\ repos = <<RepoGo>>
    /\ contributions = <<>>
    /\ profile = [followers |-> 0, following |-> 0, avatar_url |-> "avatar"]
    /\ result.bundle.metrics["diversity"] = FMul(Float(1, 5), Float(7, 10))
    /\ result.bundle.score = Float(73, 100)

\* 0.5 * readme/n + 0.3 * wiki/n + 0.2 * described/n
DocumentationBlend(n, readme, wiki, described) ==
    RAdd(RAdd(RMul(Frac(5, 10), Frac(readme, n)), RMul(Frac(3, 10), Frac(wiki, n))),
         RMul(Frac(2, 10), Frac(described, n)))

\* the repositories with has_wiki set
WithWiki(rs) == {i \in DOMAIN rs : rs[i].has_wiki}

\* the repositories whose description is non-null and longer than 20
LongDescribed(rs) ==
    {i \in DOMAIN rs : ~rs[i].description.null /\ rs[i].description.len > 20}

\* C11 as stated: a repository counts toward readme_count whenever its
\* description is non-null, the empty string included, toward
\* description_count only when it is non-null and longer than 20 characters,
\* and the metric is 0.5*readme_count/n + 0.3*wiki_count/n
\* + 0.2*description_count/n.
C11_ReadmeCountsNonNull ==
    ("documentation" \in DOMAIN metrics) =>
        Near(metrics["documentation"],
             DocumentationBlend(Len(repos),
                Cardinality({i \in DOMAIN repos : ~repos[i].description.null}),
                Cardinality(WithWiki(repos)),
                Cardinality(LongDescribed(repos))), 50)

\* C11 (amended): a repository counts toward readme_count whenever its
\* description is non-null and not the empty string, toward description_count
\* only when it is non-null and longer than 20 characters, and the metric is
\* 0.5*readme_count/n + 0.3*wiki_count/n + 0.2*description_count/n.
C11_ReadmeCountsNonEmpty ==
    ("documentation" \in DOMAIN metrics) =>
        Near(metrics["documentation"],
             DocumentationBlend(Len(repos),
                Cardinality({i \in DOMAIN repos :
                    ~repos[i].description.null /\ repos[i].description.len # 0}),
                Cardinality(WithWiki(repos)),
                Cardinality(LongDescribed(repos))), 50)

\* the metric was computed over a repository with an empty description and a
\* wiki, and one with a description of 21 characters and a wiki
C11_Witness ==
    /\ "documentation" \in DOMAIN metrics
    /\ repos = <<RepoBare, RepoPopular>>
    /\ repos[1].description = Text(0)
    /\ Near(metrics["documentation"], Frac(65, 100), 50)

\* how many events were created within 30 days of n
RecentEventsAt(events, n) ==
    Cardinality({i \in DOMAIN events : events[i].created_at.day > n - 30})

\* how many repositories were updated within 90 days of n
RecentReposAt(rs, n) ==
    Cardinality({i \in DOMAIN rs : rs[i].updated_at.day > n - 90})

\* 0.6 * min(E/30, 1) + 0.4 * min(R/N, 1)
ClaimedActivity(E, R, N) ==
    RAdd(RMul(Frac(6, 10), RMin1(Frac(E, 30))), RMul(Frac(4, 10), RMin1(Frac(R, N))))

\* C12: with an empty event list the activity metric is 0.0 and the run does
\* not raise; otherwise it is 0.6*min(E/30, 1) + 0.4*min(R/N, 1) with E the
\* events created within the last 30 days, R the repositories updated within
\* the last 90 days (a record inside the window throughout the run is
\* counted, one outside it throughout the run is not) and N the number of
\* repositories; thirty or more recent events and no recent repository give
\* 0.6.
C12_ActivityFormula ==
    ("activity" \in DOMAIN metrics) =>
        IF Len(contributions) = 0
        THEN /\ metrics["activity"] = Zero
             /\ pc = "done" => result.kind = "bundle"
        ELSE /\ \E E \in RecentEventsAt(contributions, clock)
                            .. RecentEventsAt(contributions, now0) :
                   \E R \in RecentReposAt(repos, clock) .. RecentReposAt(repos, now0) :
                       Near(metrics["activity"], ClaimedActivity(E, R, Len(repos)), 50)
             /\ (/\ RecentEventsAt(contributions, clock) >= 30
                 /\ RecentReposAt(repos, now0) = 0)
                    => metrics["activity"] = Float(6, 10)
             /\ now0 = clock =>
                    Near(metrics["activity"],
                         ClaimedActivity(RecentEventsAt(contributions, clock),
                                         RecentReposAt(repos, clock), Len(repos)), 50)

\* a run over 31 recent events and one old one, and a repository updated 200
\* days ago, has returned activity 0.6
C12_Witness ==
    /\ result.kind = "bundle"
    /\ Len(contributions) = 32
    /\ RecentEventsAt(contributions, clock) = 31
    /\ repos = <<RepoGo>>
    /\ result.bundle.metrics["activity"] = Float(6, 10)

\* the elements of a sequence
Range(s) == {s[i] : i \in DOMAIN s}

\* the distinct non-null language values of the repositories
DistinctLanguages(rs) == {rs[i].language : i \in DOMAIN rs} \ {None}

\* the distinct topic strings of the repositories that have topics
DistinctTopics(rs) ==
    UNION {Range(rs[i].topics) : i \in {j \in DOMAIN rs : "topics" \in DOMAIN rs[j]}}

\* 0.7 * min(L/5, 1) + 0.3 * min(T/10, 1)
ClaimedDiversity(L, T) ==
    RAdd(RMul(Frac(7, 10), RMin1(Frac(L, 5))), RMul(Frac(3, 10), RMin1(Frac(T, 10))))

\* C13: the diversity metric is 0.7*min(L/5, 1) + 0.3*min(T/10, 1) for L the
\* number of distinct non-null languages and T the number of distinct topic
\* strings over all repositories (a repeated language or topic counts once,
\* a null language or absent topics add nothing), and the repository list
\* reordered or with repositories repeated gives the same value.
C13_DiversityFormula ==
    ("diversity" \in DOMAIN metrics) =>
        /\ Near(metrics["diversity"],
                ClaimedDiversity(Cardinality(DistinctLanguages(repos)),
                                 Cardinality(DistinctTopics(repos))), 50)
        /\ \A v \in Variants(repos) :
              calculate_diversity_metric(v) = metrics["diversity"]

\* the metric was computed over a reordered list that ends with the same
\* repository twice, in which one repository has no language and no topics
\* field, and more than five languages and more than ten topics occur
C13_Witness ==
    /\ "diversity" \in DOMAIN metrics
    /\ Len(repos) = 9
    /\ repos[1] = RepoRuby
    /\ repos[8] = RepoGo
    /\ repos[9] = RepoGo
    /\ \E i \in DOMAIN repos : repos[i] = RepoBare
    /\ Cardinality(DistinctLanguages(repos)) = 6
    /\ Cardinality(DistinctTopics(repos)) > 10
    /\ metrics["diversity"] = One

\* the repositories whose size lies in lo .. hi - 1
SizedWithin(rs, lo, hi) == {i \in DOMAIN rs : lo <= rs[i].size /\ rs[i].size < hi}

\* the repositories of at least the given size
SizedFrom(rs, lo) == {i \in DOMAIN rs : lo <= rs[i].size}

\* the average of 1.0 per repository below 1000, 0.5 per repository from 1000
\* and below 5000, 0.0 per repository from 5000
ClaimedSizeScore(rs) ==
    RAdd(RAdd(RMul(Frac(1, 1), Frac(Cardinality(SizedWithin(rs, 0, 1000)), Len(rs))),
              RMul(Frac(1, 2), Frac(Cardinality(SizedWithin(rs, 1000, 5000)), Len(rs)))),
         RMul(Frac(0, 1), Frac(Cardinality(SizedFrom(rs, 5000)), Len(rs))))

\* C14: a repository adds 1.0 to the size term if size < 1000, 0.5 if
\* 1000 <= size < 5000 and 0.0 if size >= 5000, and the code quality metric
\* is 0.4*min(avg_stars/10, 1) + 0.3*(fraction with has_issues)
\* + 0.3*(average size contribution).
C14_CodeQuality ==
    ("code_quality" \in DOMAIN metrics) =>
        LET n == Len(repos)
            stars == SumTo([i \in DOMAIN repos |-> repos[i].stargazers_count], n)
            issues == Cardinality({i \in DOMAIN repos : repos[i].has_issues})
        IN  Near(metrics["code_quality"],
                 RAdd(RAdd(RMul(Frac(4, 10), RMin1(Frac(stars, 10 * n))),
                           RMul(Frac(3, 10), Frac(issues, n))),
                      RMul(Frac(3, 10), ClaimedSizeScore(repos))), 50)

\* the metric was computed over a repository of size exactly 1000 and one of
\* size exactly 5000, both with issues, averaging 15 stars
C14_Witness ==
    /\ "code_quality" \in DOMAIN metrics
    /\ Len(repos) = 2
    /\ repos[1].size = 1000
    /\ repos[2].size = 5000
    /\ repos[1].stargazers_count + repos[2].stargazers_count = 30
    /\ Near(metrics["code_quality"], Frac(775, 1000), 50)

\* the positions of `signals` that hold a finished or an error signal
FinalSignals == {k \in DOMAIN signals : signals[k].name \in {"finished", "error"}}

\* the statements of run and of analyze_profile a run can be at; a run that
\* an exception has left is at none of them
RunPositions ==
    {"run", "idle", "get_user_profile", "get_user_repos", "get_user_contributions",
     "check_repos", "activity", "recent_events", "recent_repos", "diversity",
     "community", "documentation", "code_quality", "compose", "done", "emitted",
     "ended"}

\* C15: a run emits the progress values 1 to 100 in increasing order before
\* anything else and enters analyze_profile (so starts the fetches) only
\* after them; it emits at most one of finished and error, as its last
\* signal; once analyze_profile has returned or raised, the emission is the
\* next step and the return of run the one after it, no exception leaves
\* run, and a run that has ended has emitted exactly one: finished with the
\* bundle if analyze_profile returned, error with the message if it raised.
C15_ProgressThenOneFinalSignal ==
    /\ pc \in RunPositions
    /\ pc = "done" => ENABLED Emit
    /\ pc = "emitted" => ENABLED Return
    /\ Len(signals) <= ProgressSteps + 1
    /\ \A k \in DOMAIN signals :
          k <= ProgressSteps <=> signals[k] = Signal("progress", k)
    /\ (pc \notin {"run", "idle"} \/ fetchLog # <<>>) => Len(signals) >= ProgressSteps
    /\ pc = "run" => Len(signals) = loop_i /\ loop_i < ProgressSteps
    /\ Cardinality(FinalSignals) <= 1
    /\ FinalSignals \subseteq {Len(signals)}
    /\ pc \in {"emitted", "ended"} =>
          /\ Cardinality(FinalSignals) = 1
          /\ result.kind \in {"bundle", "error"}
          /\ result.kind = "bundle" =>
                signals[Len(signals)] = Signal("finished", result.bundle)
          /\ result.kind = "error" =>
                /\ signals[Len(signals)] = Signal("error", result.message)
                /\ result.message[1] = "Analysis failed: "
    /\ Cardinality(FinalSignals) = 1 => pc \in {"emitted", "ended"}

\* a run whose third fetch failed has ended with the error signal after the
\* hundred progress signals
C15_Witness ==
    /\ pc = "ended"
    /\ Len(signals) = ProgressSteps + 1
    /\ signals[ProgressSteps] = Signal("progress", ProgressSteps)
    /\ signals[ProgressSteps + 1] =
          Signal("error", <<"Analysis failed: ", "Failed to fetch contributions: ",
                            "timeout">>)
    /\ Len(fetchLog) = 3

\* the message of the tier a score falls into
TierOf(s) ==
    IF FGe(s, FromInt(8)) THEN Outstanding
    ELSE IF FGe(s, FromInt(6)) THEN Great
    ELSE IF FGe(s, FromInt(4)) THEN GoodStart
    ELSE JustBegun

\* C16: in every bundle analyze_profile returns, the appreciation is the
\* message of the tier its reported, 2-decimal score falls into: a score
\* field >= 8 comes with the top message, and likewise at 6 and 4.
C16_AppreciationMatchesReportedScore ==
    result.kind = "bundle" =>
        /\ result.bundle.appreciation = TierOf(result.bundle.score)
        /\ FGe(result.bundle.score, FromInt(8)) => result.bundle.appreciation = Outstanding

\* C17: in every bundle no metric is listed both as a strength and as a
\* weakness; the recommendation of a metric listed as a weakness is among the
\* recommendations and that of a metric listed as a strength is not; so when
\* the weaknesses are not the placeholder, the recommendations are not the
\* positive placeholder.
C17_FeedbackConsistent ==
    result.kind = "bundle" =>
        LET b == result.bundle
        IN  /\ \A k \in MetricNames :
                  /\ ~(Lists(b.strengths, "Strong ", k) /\ Lists(b.weaknesses, "Weak ", k))
                  /\ Lists(b.weaknesses, "Weak ", k) =>
                        Occurrences(b.recommendations, RecommendationOf(k)) = 1
                  /\ Lists(b.strengths, "Strong ", k) =>
                        Occurrences(b.recommendations, RecommendationOf(k)) = 0
            /\ b.weaknesses # <<NoWeaknesses>> => b.recommendations # <<KeepDoing>>

\* a bundle with a weakness at exactly 0.30, a strength at exactly 0.70 and
\* three metrics at 0.40: one recommendation, that of the weakness
C17_Witness ==
    /\ result.kind = "bundle"
    /\ result.bundle.metrics =
          [activity |-> Float(3, 10), diversity |-> Float(7, 10), community |-> Float(4, 10),
           documentation |-> Float(4, 10), code_quality |-> Float(4, 10)]
    /\ Lists(result.bundle.weaknesses, "Weak ", "activity")
    /\ Lists(result.bundle.strengths, "Strong ", "diversity")
    /\ result.bundle.recommendations = <<RecommendationOf("activity")>>

\* the threads started whose final signal no slot has handled
InFlight == orphans + (IF Unhandled THEN 1 ELSE 0)

\* C18: from a start_analysis with a non-empty username until show_results or
\* show_error has handled the thread's signal the button is disabled, so at
\* most one AnalyzerThread is in flight (started, its final signal not yet
\* handled) at any time and none is ever replaced in flight; a
\* start_analysis with an empty username starts no thread and leaves the
\* button enabled; and after every started analysis the button is eventually
\* enabled again and the progress bar hidden.
C18_OneAnalysisAtATime ==
    /\ [](Unhandled => ~analyze_button)
    /\ [](InFlight <= 1)
    /\ [][(dialog = "none" /\ dialog' = "warning") =>
            (/\ Strip(username_input) = <<>>
             /\ analyze_button /\ analyze_button'
             /\ UNCHANGED <<pc, thread, progress_bar>>)]_dialog
    /\ [][(pc' = "run" /\ loop_i' = 0) =>
            (/\ Strip(username_input) # <<>>
             /\ ~Unhandled
             /\ ~analyze_button' /\ progress_bar'.visible)]_<<pc, loop_i>>
    /\ (~analyze_button ~> (analyze_button /\ ~progress_bar.visible))

\* an analysis of "gh" has ended with the error signal, show_error has
\* enabled the button and hidden the bar, and a click on a username of
\* whitespace only has then opened the warning without starting a thread
C18_Witness ==
    /\ dialog = "warning"
    /\ username_input = <<32, 9, 160>>
    /\ pc \in {"emitted", "ended"}
    /\ Len(signals) = ProgressSteps + 1
    /\ signals[Len(signals)].name = "error"
    /\ handled = Len(signals)
    /\ analyze_button
    /\ ~progress_bar.visible
    /\ orphans = 0

====
